---- MODULE Spec2Model ----
(***************************************************************************)
(* Model of server/analytics/modules/sensor/Sensor.py: the Sensor class,   *)
(* its signal-conditioning pipeline (normalize, merge, median filter,      *)
(* Butterworth filter, scalar Kalman filter) and its label export.         *)
(*                                                                         *)
(* Floating-point numbers are modelled as exact fractions <<n, d>> in      *)
(* lowest terms with d > 0, extended with the three non-finite values a    *)
(* numpy division by zero produces: <<1,0>> (+inf), <<-1,0>> (-inf) and    *)
(* <<0,0>> (nan).  Rounding and the sign of zero are not modelled.         *)
(* Python's None is the empty tuple; a present optional value v is <<v>>.  *)
(* Python index k is TLA+ index k+1.                                       *)
(***************************************************************************)
EXTENDS Integers, Sequences, FiniteSets, TLC

VARIABLES
    timestamp, x, y, z,             \* self.timestamp, self.x, self.y, self.z
    mean_signal,                    \* self.mean_signal (None or <<signal>>)
    view,                           \* self.view ("None" or "view")
    sampling_rate, filter_type,     \* self.sampling_rate, self.filter_type
    median_filter_window_size,      \* self.median_filter_window_size
    process_variance_q,             \* self.process_variance_q
    measurement_variance_estimate,  \* self.measurement_variance_estimate
    call,                           \* the public method running or last run
    pc,                             \* position inside process(), or "idle"
    merge_axis,                     \* the argument of the running process()
    trace,                          \* stages that call has entered, in order
    plots,                          \* calls received by the view, in order
    err,                            \* exception raised by the last call, or "none"
    ops,                            \* number of public calls made so far
    output_file,                    \* the export file of label_segmentation
    kalman                          \* locals of a running get_kalman_filter_estimate

vars == <<timestamp, x, y, z, mean_signal, view, sampling_rate, filter_type,
          median_filter_window_size, process_variance_q,
          measurement_variance_estimate, call, pc, merge_axis, trace, plots,
          err, ops, output_file, kalman>>

sensor_signals == <<x, y, z, mean_signal>>

(***************************************************************************)
(* Bounds of the model.                                                    *)
(***************************************************************************)
MaxLen == 3          \* longest recording of the pipeline specification
MaxOps == 2          \* public calls made on one Sensor
MaxKalmanLen == 3    \* longest input of the stand-alone Kalman specification
MaxMagnitude == 200  \* largest numerator or denominator a call may start from
LongLen == 120       \* rows of the recording of the export specification

None == <<>>
Some(v) == <<v>>
Get(o) == o[1]

(***************************************************************************)
(* Floating-point values as fractions.                                     *)
(***************************************************************************)
Abs(n) == IF n < 0 THEN -n ELSE n
Sign(n) == IF n < 0 THEN -1 ELSE IF n > 0 THEN 1 ELSE 0

RECURSIVE GCD(_, _)
GCD(a, b) == IF b = 0 THEN a ELSE GCD(b, a % b)

Norm(n, d) ==
    IF d = 0 THEN <<Sign(n), 0>>
    ELSE LET g == GCD(Abs(n), Abs(d))
         IN  <<Sign(d) * (n \div g), Abs(d) \div g>>

F(n) == <<n, 1>>
Zero == <<0, 1>>
One == <<1, 1>>
NaN == <<0, 0>>
IsFinite(a) == a[2] # 0

RNeg(a) == <<-a[1], a[2]>>

RAdd(a, b) ==
    IF a[2] # 0 /\ b[2] # 0
    THEN LET g == GCD(a[2], b[2])
         IN  Norm(a[1] * (b[2] \div g) + b[1] * (a[2] \div g), (a[2] \div g) * b[2])
    ELSE IF a = NaN \/ b = NaN THEN NaN
    ELSE IF a[2] = 0 /\ b[2] = 0 THEN (IF a = b THEN a ELSE NaN)
    ELSE IF a[2] = 0 THEN a ELSE b

RSub(a, b) == RAdd(a, RNeg(b))

RMul(a, b) ==
    IF a[2] # 0 /\ b[2] # 0
    THEN LET g1 == GCD(Abs(a[1]), b[2])
             g2 == GCD(Abs(b[1]), a[2])
         IN  Norm((a[1] \div g1) * (b[1] \div g2), (a[2] \div g2) * (b[2] \div g1))
    ELSE Norm(a[1] * b[1], a[2] * b[2])

RInv(a) == IF a[1] < 0 THEN <<-a[2], -a[1]>> ELSE <<a[2], a[1]>>
RDiv(a, b) == RMul(a, RInv(b))

\* a <= b; a nan compares above everything, as numpy's sort places it last.
RLeq(a, b) ==
    IF b = NaN THEN TRUE
    ELSE IF a = NaN THEN FALSE
    ELSE IF a[2] = 0 /\ b[2] = 0 THEN a[1] <= b[1]
    ELSE IF a[2] = 0 THEN a[1] < 0
    ELSE IF b[2] = 0 THEN b[1] > 0
    ELSE a[1] * b[2] <= b[1] * a[2]

RECURSIVE RSum(_)
RSum(s) == IF s = <<>> THEN Zero ELSE RAdd(Head(s), RSum(Tail(s)))

Zeros(n) == [i \in 1..n |-> Zero]

(***************************************************************************)
(* get_kalman_filter_estimate.  Q and R are the Python values of           *)
(* self.process_variance_q and self.measurement_variance_estimate.         *)
(***************************************************************************)
\* KalmanStart with the first estimate taken from the first sample.
KalmanStartFromData(data) ==
    LET length == Len(data)
    IN  [data |-> data,
         i |-> 2,
         a_posteriori_estimate |-> [k \in 1..length |-> IF k = 1 THEN data[1] ELSE Zero],
         a_posteriori_error_estimate |->
             [k \in 1..length |-> IF k = 1 THEN One ELSE Zero],
         a_priori_estimate |-> Zeros(length),
         a_priori_error_estimate |-> Zeros(length),
         blending_factor_gain |-> Zeros(length),
         raised |-> IF length = 0 THEN "IndexError" ELSE "none"]

\* Lines 103-112: the five work arrays and the two fixed priors.  Storing to
\* index 0 of an empty array raises IndexError.
KalmanStart(data) ==
    LET length == Len(data)
    IN  [data |-> data,
         i |-> 2,
         a_posteriori_estimate |-> Zeros(length),
         a_posteriori_error_estimate |->
             [k \in 1..length |-> IF k = 1 THEN One ELSE Zero],
         a_priori_estimate |-> Zeros(length),
         a_priori_error_estimate |-> Zeros(length),
         blending_factor_gain |-> Zeros(length),
         raised |-> IF length = 0 THEN "IndexError" ELSE "none"]

\* Lines 115-121: one iteration of the loop, at k.i.  Adding None to a float
\* raises TypeError.
KalmanIteration(k, Q, R) ==
    IF Q = None \/ R = None THEN [k EXCEPT !.raised = "TypeError"]
    ELSE
    LET i == k.i
        prio == k.a_posteriori_estimate[i - 1]
        prio_error == RAdd(k.a_posteriori_error_estimate[i - 1], Get(Q))
        gain == RDiv(prio_error, RAdd(prio_error, Get(R)))
        post == RAdd(prio, RMul(gain, RSub(k.data[i], prio)))
        post_error == RMul(RSub(One, gain), prio_error)
    IN  [k EXCEPT !.i = i + 1,
                  !.a_priori_estimate[i] = prio,
                  !.a_priori_error_estimate[i] = prio_error,
                  !.blending_factor_gain[i] = gain,
                  !.a_posteriori_estimate[i] = post,
                  !.a_posteriori_error_estimate[i] = post_error]

KalmanRunning(k) == k.raised = "none" /\ k.i <= Len(k.data)

RECURSIVE KalmanLoop(_, _, _)
KalmanLoop(k, Q, R) ==
    IF KalmanRunning(k) THEN KalmanLoop(KalmanIteration(k, Q, R), Q, R) ELSE k

\* The whole call: the final locals; the return value is a_posteriori_estimate
\* unless .raised names an exception.
get_kalman_filter_estimate(data, Q, R) == KalmanLoop(KalmanStart(data), Q, R)

(***************************************************************************)
(* normalize, normalize_axis and get_mean_signal.                          *)
(***************************************************************************)
\* np.mean: the sum over the count (nan for an empty array).
np_mean(data) == RDiv(RSum(data), F(Len(data)))

normalize_axis(value, mean) == RSub(value, mean)

\* One axis of normalize: self.mean = np.mean(axis); map(normalize_axis, axis).
normalize_axes(data) ==
    LET mean == np_mean(data)
    IN  [i \in 1..Len(data) |-> normalize_axis(data[i], mean)]

get_mean_signal(sx, sy, sz) ==
    LET length == Len(sx)
    IN  [i \in 1..length |-> RDiv(RAdd(RAdd(sx[i], sy[i]), sz[i]), F(3))]

(***************************************************************************)
(* scipy.signal.medfilt: the median over a window centred on each sample,  *)
(* the signal padded with zeros; an even window raises ValueError.         *)
(***************************************************************************)
MedfiltWindow(data, window_size, i) ==
    [j \in 1..window_size |->
        LET k == i - (window_size \div 2) + (j - 1)
        IN  IF k \in 1..Len(data) THEN data[k] ELSE Zero]

Median(w) ==
    LET h == (Len(w) + 1) \div 2
        m == CHOOSE j \in 1..Len(w) :
                /\ Cardinality({k \in 1..Len(w) : RLeq(w[k], w[j])}) >= h
                /\ Cardinality({k \in 1..Len(w) : RLeq(w[j], w[k])}) >= h
    IN  w[m]

medfilt_raises(window_size) == IF window_size % 2 = 1 THEN "none" ELSE "ValueError"

\* medfilt keeping only the samples whose window lies inside the signal.
medfilt_valid(data, window_size) ==
    [i \in 1..(Len(data) - (window_size - 1)) |->
        Median(MedfiltWindow(data, window_size, i + (window_size \div 2)))]

medfilt(data, window_size) ==
    [i \in 1..Len(data) |-> Median(MedfiltWindow(data, window_size, i))]

(***************************************************************************)
(* apply_butter_filter: scipy.signal.butter and scipy.signal.lfilter.      *)
(***************************************************************************)
CUTOFF_FREQUENCY == <<1, 2>>
BUTTER_ORDER == 6

\* Lines 86-87.
normal_cutoff(frequency) == RDiv(CUTOFF_FREQUENCY, RMul(<<1, 2>>, frequency))

\* butter's check of a digital critical frequency.  Every release rejects
\* Wn < 0 and Wn > 1; the releases that check "0 < Wn < 1" also reject the
\* end points, the earlier ones ("0 <= Wn <= 1") accept them.  strict tells
\* which of the two the installed library is.
butter_raises(Wn, strict) ==
    IF ~RLeq(Zero, Wn) \/ ~RLeq(Wn, One) THEN "ValueError"
    ELSE IF strict /\ (Wn = Zero \/ Wn = One) THEN "ValueError"
    ELSE "none"

RECURSIVE Binomial(_, _)
Binomial(n, k) ==
    IF k = 0 \/ k = n THEN 1 ELSE Binomial(n - 1, k - 1) + Binomial(n - 1, k)

RECURSIVE Pow2(_)
Pow2(n) == IF n = 0 THEN 1 ELSE 2 * Pow2(n - 1)

\* The transfer function butter returns.  Its numerator has the form the
\* bilinear transform gives: gain * (1 + 1/z)^order for a low-pass and
\* gain * (1 - 1/z)^order for a high-pass.  The gain and the denominator are
\* irrational functions of Wn; fixed fractions stand for them here.
butter(order, Wn, btype) ==
    [b |-> [k \in 1..(order + 1) |->
               Norm((IF btype = "high" /\ k % 2 = 0 THEN -1 ELSE 1)
                        * Binomial(order, k - 1), Pow2(order))],
     a |-> [k \in 1..(order + 1) |->
               IF k = 1 THEN One ELSE IF k = 3 THEN <<1, 4>> ELSE Zero]]

\* lfilter, direct form: a[0]*y[n] = sum b[k]*x[n-k] - sum a[k]*y[n-k].
RECURSIVE lfilter_upto(_, _, _, _)
lfilter_upto(b, a, data, n) ==
    IF n = 0 THEN <<>>
    ELSE LET prev == lfilter_upto(b, a, data, n - 1)
             feed == RSum([k \in 1..Len(b) |->
                        IF n - (k - 1) >= 1 THEN RMul(b[k], data[n - (k - 1)]) ELSE Zero])
             back == RSum([k \in 1..Len(a) |->
                        IF k >= 2 /\ n - (k - 1) >= 1
                        THEN RMul(a[k], prev[n - (k - 1)]) ELSE Zero])
         IN  Append(prev, RDiv(RSub(feed, back), a[1]))

lfilter(b, a, data) == lfilter_upto(b, a, data, Len(data))

apply_butter_filter_raises(frequency, strict) ==
    butter_raises(normal_cutoff(frequency), strict)

apply_butter_filter(data, frequency, type) ==
    LET c == butter(BUTTER_ORDER, normal_cutoff(frequency), type)
    IN  lfilter(c.b, c.a, data)

(***************************************************************************)
(* plot: what the view receives.  A title is the sequence of its words.     *)
(***************************************************************************)
name == "sensor"

plot(title, sx, sy, sz, mean, log) ==
    IF view # "None"
    THEN IF mean = None
         THEN Append(log, [call |-> "plot_sensor_data", title |-> <<name>> \o title,
                           timestamp |-> timestamp, data |-> <<sx, sy, sz>>])
         ELSE Append(log, [call |-> "plot_signal", title |-> <<name>> \o title,
                           timestamp |-> timestamp, data |-> <<Get(mean)>>])
    ELSE log

(***************************************************************************)
(* get_data_slice and the export of label_segmentation.                    *)
(***************************************************************************)
window_size == 100

\* Python's data[start:stop] on a sequence of length n (0-based bounds): a
\* negative bound counts from the end, and both are clipped to 0..n.
PyBound(k, n) == IF k < 0 THEN (IF k + n < 0 THEN 0 ELSE k + n)
                 ELSE IF k > n THEN n ELSE k

PySlice(data, start, stop) ==
    LET s == PyBound(start, Len(data))
        e == PyBound(stop, Len(data))
    IN  IF s < e THEN SubSeq(data, s + 1, e) ELSE <<>>

\* center_index is the Python (0-based) index.
get_data_slice(data, center_index) ==
    LET left_samples == PySlice(data, center_index - (window_size \div 2), center_index)
        right_samples == PySlice(data, center_index, center_index + (window_size \div 2))
    IN  left_samples \o right_samples

\* (np.abs(self.timestamp - t)).argmin(): the first index of the least
\* distance, as a Python index.
center_timestamp_index(t) ==
    LET dist(i) == Abs(timestamp[i] - t)
    IN  (CHOOSE i \in 1..Len(timestamp) :
            /\ \A j \in 1..Len(timestamp) : dist(i) <= dist(j)
            /\ \A j \in 1..(i - 1) : dist(j) > dist(i)) - 1

\* Lines 157-170 for label i: the lines written for it.
label_block(t, label) ==
    LET c == center_timestamp_index(t)
        x_sample == get_data_slice(x, c)
        y_sample == get_data_slice(y, c)
        z_sample == get_data_slice(z, c)
    IN  <<[kind |-> "label", tag |-> label], [kind |-> "header"]>>
        \o [j \in 1..Len(x_sample) |->
               [kind |-> "sample", x |-> x_sample[j], y |-> y_sample[j],
                z |-> z_sample[j]]]
        \o <<[kind |-> "blank"]>>

\* The loop of lines 156-170 from label i on: the lines it writes and the
\* exception that ends it.  labels[i] past the end of labels raises
\* IndexError, after the slices are taken and before anything is written.
RECURSIVE label_loop(_, _, _)
label_loop(label_timestamps, labels, i) ==
    IF i > Len(label_timestamps) THEN [lines |-> <<>>, raised |-> "none"]
    ELSE IF i > Len(labels) THEN [lines |-> <<>>, raised |-> "IndexError"]
    ELSE LET rest == label_loop(label_timestamps, labels, i + 1)
         IN  [lines |-> label_block(label_timestamps[i], labels[i]) \o rest.lines,
              raised |-> rest.raised]

(***************************************************************************)
(* The Sensor object: construction and the caller's configuration.         *)
(***************************************************************************)
\* The recordings a Sensor is built from: n rows (timestamp, x, y, z), the
\* timestamps one apart with Python index 40 at timestamp 100.  A file with
\* no row or a single row is not modelled: genfromtxt returns a 0-d array
\* for a single row, which normalize cannot iterate.
Axis(n, k) == [i \in 1..n |-> F(((k * i) % 4) + (i \div 4))]
Recording(n) ==
    [timestamp |-> [i \in 1..n |-> 59 + i],
     x |-> Axis(n, 1), y |-> Axis(n, 2), z |-> Axis(n, 3)]
Recordings == {Recording(n) : n \in (MaxLen - 1)..MaxLen}

\* What the caller assigns to the public attributes before using the Sensor:
\* every median and band setting with unit variances, and the band-less
\* settings with a negative measurement variance.
MedianWindows == {None, Some(3)}
NoBand == <<None, "None">>
Bands == {NoBand, <<Some(F(2)), "low">>, <<Some(F(1)), "high">>, <<Some(<<1, 2>>), "low">>}
Configurations ==
    {<<w, b, <<Some(F(1)), Some(F(1))>>>> : w \in MedianWindows, b \in Bands}
    \cup {<<None, NoBand, <<Some(F(0)), Some(F(-1))>>>>}

\* Sensor.__init__ with everything but the recording and the view.
Constructed ==
    /\ sampling_rate = None
    /\ filter_type = "None"
    /\ median_filter_window_size = None
    /\ process_variance_q = None
    /\ measurement_variance_estimate = None
    /\ mean_signal = None
    /\ call = "__init__"
    /\ pc = "idle"
    /\ merge_axis = FALSE
    /\ trace = <<>>
    /\ plots = <<>>
    /\ err = "none"
    /\ ops = 0
    /\ output_file = [handle |-> "none", lines |-> <<>>]
    /\ kalman = None

Init ==
    /\ \E r \in Recordings :
          /\ timestamp = r.timestamp
          /\ x = r.x
          /\ y = r.y
          /\ z = r.z
    /\ view \in {"None", "view"}
    /\ Constructed

Configure ==
    /\ call = "__init__"
    /\ sampling_rate = None /\ filter_type = "None"
    /\ median_filter_window_size = None
    /\ process_variance_q = None /\ measurement_variance_estimate = None
    /\ \E <<w, b, v>> \in Configurations :
          /\ median_filter_window_size' = w
          /\ sampling_rate' = b[1]
          /\ filter_type' = b[2]
          /\ process_variance_q' = v[1]
          /\ measurement_variance_estimate' = v[2]
    /\ UNCHANGED <<timestamp, x, y, z, mean_signal, view, call, pc, merge_axis,
                   trace, plots, err, ops, output_file, kalman>>

\* UMath.get_frequency: the sampling frequency the band filter is designed
\* for, taken to be the configured sampling rate itself.
get_frequency(rate) == rate

(***************************************************************************)
(* The stage methods: what each does to x, y, z, mean_signal and which     *)
(* exception (err') it ends with.                                          *)
(***************************************************************************)
normalize ==
    /\ x' = normalize_axes(x)
    /\ y' = normalize_axes(y)
    /\ z' = normalize_axes(z)
    /\ mean_signal' = mean_signal
    /\ err' = "none"

\* apply_median_filter without the test of mean_signal.
apply_median_filter_axes(w) ==
    IF medfilt_raises(w) # "none"
    THEN err' = medfilt_raises(w) /\ UNCHANGED sensor_signals
    ELSE /\ err' = "none"
         /\ x' = medfilt(x, w)
         /\ y' = medfilt(y, w)
         /\ z' = medfilt(z, w)
         /\ mean_signal' = mean_signal

apply_median_filter(w) ==
    IF medfilt_raises(w) # "none"
    THEN err' = medfilt_raises(w) /\ UNCHANGED sensor_signals
    ELSE /\ err' = "none"
         /\ IF mean_signal = None
            THEN /\ x' = medfilt(x, w)
                 /\ y' = medfilt(y, w)
                 /\ z' = medfilt(z, w)
                 /\ mean_signal' = mean_signal
            ELSE /\ mean_signal' = Some(medfilt(Get(mean_signal), w))
                 /\ UNCHANGED <<x, y, z>>

apply_filter(sampling_frequency, type, strict) ==
    IF apply_butter_filter_raises(sampling_frequency, strict) # "none"
    THEN /\ err' = apply_butter_filter_raises(sampling_frequency, strict)
         /\ UNCHANGED sensor_signals
    ELSE /\ err' = "none"
         /\ IF mean_signal = None
            THEN /\ x' = apply_butter_filter(x, sampling_frequency, type)
                 /\ y' = apply_butter_filter(y, sampling_frequency, type)
                 /\ z' = apply_butter_filter(z, sampling_frequency, type)
                 /\ mean_signal' = mean_signal
            ELSE /\ mean_signal' =
                      Some(apply_butter_filter(Get(mean_signal), sampling_frequency, type))
                 /\ UNCHANGED <<x, y, z>>

\* The three axes have one length, so the first call raises whenever any does.
apply_kalman_filter ==
    LET Q == process_variance_q
        R == measurement_variance_estimate
        first == get_kalman_filter_estimate(
                     IF mean_signal = None THEN x ELSE Get(mean_signal), Q, R)
    IN  IF first.raised # "none"
        THEN err' = first.raised /\ UNCHANGED sensor_signals
        ELSE /\ err' = "none"
             /\ IF mean_signal = None
                THEN /\ x' = first.a_posteriori_estimate
                     /\ y' = get_kalman_filter_estimate(y, Q, R).a_posteriori_estimate
                     /\ z' = get_kalman_filter_estimate(z, Q, R).a_posteriori_estimate
                     /\ mean_signal' = mean_signal
                ELSE /\ mean_signal' = Some(first.a_posteriori_estimate)
                     /\ UNCHANGED <<x, y, z>>

\* PeakAnalysis.segment(signal, visualize): what it leaves in the array it is
\* handed.  It reads the signal to find peaks and does not write it.
PeakAnalysis_segment(signal, visualize) == signal

automatic_segmentation ==
    /\ mean_signal' = Some(PeakAnalysis_segment(get_mean_signal(x, y, z), TRUE))
    /\ UNCHANGED <<x, y, z>>
    /\ err' = "none"

\* label_segmentation.  io_fail = Some(0): open raises IOError; Some(k), k > 0:
\* the k-th write raises IOError; None: the file system never fails.  The
\* handle is closed by line 171 alone.
label_segmentation(label_timestamps, labels, io_fail) ==
    LET run == label_loop(label_timestamps, labels, 1)
    IN  IF io_fail = Some(0)
        THEN /\ output_file' = [handle |-> "none", lines |-> output_file.lines]
             /\ err' = "IOError"
        ELSE IF io_fail # None /\ Get(io_fail) <= Len(run.lines)
        THEN /\ output_file' = [handle |-> "open",
                                lines |-> SubSeq(run.lines, 1, Get(io_fail) - 1)]
             /\ err' = "IOError"
        ELSE /\ output_file' = [handle |-> IF run.raised = "none" THEN "closed" ELSE "open",
                                lines |-> run.lines]
             /\ err' = run.raised

(***************************************************************************)
(* process(merge_axis), one action per stage.                              *)
(***************************************************************************)
fixed == <<timestamp, view, sampling_rate, filter_type, median_filter_window_size,
           process_variance_q, measurement_variance_estimate, output_file, kalman>>

\* A public method may be called: none is running, and the model's bounds on
\* the number of calls and on the size of the fractions are not reached.
Small(data) ==
    {i \in 1..Len(data) : Abs(data[i][1]) > MaxMagnitude \/ data[i][2] > MaxMagnitude} = {}
Callable ==
    /\ pc = "idle"
    /\ ops < MaxOps
    /\ Small(x) /\ Small(y) /\ Small(z)
    /\ mean_signal # None => Small(Get(mean_signal))

\* Lines 36: process is entered and plots the raw signal.
ProcessBegin ==
    /\ Callable
    /\ \E m \in BOOLEAN : merge_axis' = m
    /\ call' = "process"
    /\ ops' = ops + 1
    /\ trace' = <<>>
    /\ err' = "none"
    /\ plots' = plot(<<"raw">>, x, y, z, mean_signal, plots)
    /\ pc' = "normalize"
    /\ UNCHANGED <<sensor_signals, fixed>>

\* Lines 38-39.
ProcessNormalize ==
    /\ pc = "normalize"
    /\ normalize
    /\ trace' = Append(trace, "normalize")
    /\ plots' = plot(<<"normalize">>, x', y', z', mean_signal', plots)
    /\ pc' = "merge"
    /\ UNCHANGED <<fixed, call, merge_axis, ops>>

\* Lines 41-42.
ProcessMerge ==
    /\ pc = "merge"
    /\ IF merge_axis
       THEN /\ mean_signal' = Some(get_mean_signal(x, y, z))
            /\ trace' = Append(trace, "merge")
       ELSE UNCHANGED <<mean_signal, trace>>
    /\ pc' = "median"
    /\ UNCHANGED <<x, y, z, fixed, call, merge_axis, ops, plots, err>>

\* ProcessMedian falling back on apply_median_filter's default window.
ProcessMedian_DefaultWindow ==
    /\ pc = "median"
    /\ IF median_filter_window_size # None
       THEN /\ apply_median_filter(Get(median_filter_window_size))
            /\ trace' = Append(trace, "median")
            /\ IF err' = "none"
               THEN /\ plots' = plot(<<"median", "filter">>, x', y', z', mean_signal', plots)
                    /\ pc' = "band"
               ELSE /\ plots' = plots
                    /\ pc' = "idle"
       ELSE /\ apply_median_filter(3)
            /\ pc' = "band"
            /\ UNCHANGED <<trace, plots>>
    /\ UNCHANGED <<fixed, call, merge_axis, ops>>

\* Lines 44-46.
ProcessMedian ==
    /\ pc = "median"
    /\ IF median_filter_window_size # None
       THEN /\ apply_median_filter(Get(median_filter_window_size))
            /\ trace' = Append(trace, "median")
            /\ IF err' = "none"
               THEN /\ plots' = plot(<<"median", "filter">>, x', y', z', mean_signal', plots)
                    /\ pc' = "band"
               ELSE /\ plots' = plots
                    /\ pc' = "idle"
       ELSE /\ pc' = "band"
            /\ UNCHANGED <<sensor_signals, trace, plots, err>>
    /\ UNCHANGED <<fixed, call, merge_axis, ops>>

\* ProcessBand going on to view.show() instead of the Kalman stage.
ProcessBand_SkipsKalman ==
    /\ pc = "band"
    /\ IF sampling_rate # None /\ filter_type # "None"
       THEN /\ \E strict \in BOOLEAN :
                  apply_filter(get_frequency(Get(sampling_rate)), filter_type, strict)
            /\ trace' = Append(trace, "band")
            /\ IF err' = "none"
               THEN /\ plots' = plot(<<filter_type, "filter">>, x', y', z', mean_signal', plots)
                    /\ pc' = "show"
               ELSE /\ plots' = plots
                    /\ pc' = "idle"
       ELSE /\ pc' = "show"
            /\ UNCHANGED <<sensor_signals, trace, plots, err>>
    /\ UNCHANGED <<fixed, call, merge_axis, ops>>

\* Lines 48-50.
ProcessBand ==
    /\ pc = "band"
    /\ IF sampling_rate # None /\ filter_type # "None"
       THEN /\ \E strict \in BOOLEAN :
                  apply_filter(get_frequency(Get(sampling_rate)), filter_type, strict)
            /\ trace' = Append(trace, "band")
            /\ IF err' = "none"
               THEN /\ plots' = plot(<<filter_type, "filter">>, x', y', z', mean_signal', plots)
                    /\ pc' = "kalman"
               ELSE /\ plots' = plots
                    /\ pc' = "idle"
       ELSE /\ pc' = "kalman"
            /\ UNCHANGED <<sensor_signals, trace, plots, err>>
    /\ UNCHANGED <<fixed, call, merge_axis, ops>>

\* Lines 52-53.
ProcessKalman ==
    /\ pc = "kalman"
    /\ apply_kalman_filter
    /\ trace' = Append(trace, "kalman")
    /\ IF err' = "none"
       THEN /\ plots' = plot(<<"kalman", "filter">>, x', y', z', mean_signal', plots)
            /\ pc' = "show"
       ELSE /\ plots' = plots
            /\ pc' = "idle"
    /\ UNCHANGED <<fixed, call, merge_axis, ops>>

\* Lines 55-56.
ProcessShow ==
    /\ pc = "show"
    /\ plots' = IF view # "None" THEN Append(plots, [call |-> "show"]) ELSE plots
    /\ pc' = "idle"
    /\ UNCHANGED <<sensor_signals, fixed, call, merge_axis, ops, trace, err>>

(***************************************************************************)
(* The other public methods, called directly.                              *)
(***************************************************************************)
DirectCall(method, stage) ==
    /\ Callable
    /\ call' = method
    /\ ops' = ops + 1
    /\ trace' = <<stage>>
    /\ UNCHANGED <<pc, merge_axis, plots>>

Normalize ==
    /\ DirectCall("normalize", "normalize")
    /\ normalize
    /\ UNCHANGED fixed

ApplyMedianFilter ==
    /\ DirectCall("apply_median_filter", "median")
    /\ \E w \in {2, 3} : apply_median_filter(w)
    /\ UNCHANGED fixed

ApplyFilter ==
    /\ DirectCall("apply_filter", "band")
    /\ \E <<f, t>> \in {<<<<1, 2>>, "low">>, <<F(1), "high">>, <<F(2), "low">>},
          strict \in BOOLEAN :
          apply_filter(f, t, strict)
    /\ UNCHANGED fixed

ApplyKalmanFilter ==
    /\ DirectCall("apply_kalman_filter", "kalman")
    /\ apply_kalman_filter
    /\ UNCHANGED fixed

AutomaticSegmentation ==
    /\ DirectCall("automatic_segmentation", "merge")
    /\ automatic_segmentation
    /\ UNCHANGED fixed

\* The label timestamps, labels and file-system behaviour of one export.
LongRecording == Len(timestamp) >= window_size
LabelTimes == {60, 75, 100, 109, 110, 131, 150, 165, 174, 179}
LabelTimestamps ==
    IF LongRecording
    THEN {<<t>> : t \in LabelTimes} \cup {<<t, 131>> : t \in LabelTimes}
    ELSE {<<61>>, <<60, 100>>}
Labels == IF LongRecording THEN {<<"tap">>, <<"tap", "swipe">>} ELSE {<<"tap">>}
IoFailures == IF LongRecording THEN {None, Some(0), Some(4), Some(60)} ELSE {None, Some(2)}

LabelSegmentation ==
    /\ DirectCall("label_segmentation", "export")
    /\ \E ts \in LabelTimestamps, ls \in Labels, io \in IoFailures :
          label_segmentation(ts, ls, io)
    /\ UNCHANGED <<sensor_signals, timestamp, view, sampling_rate, filter_type,
                   median_filter_window_size, process_variance_q,
                   measurement_variance_estimate, kalman>>

Next ==
    \/ Configure
    \/ ProcessBegin
    \/ ProcessNormalize
    \/ ProcessMerge
    \/ ProcessMedian
    \/ ProcessBand
    \/ ProcessKalman
    \/ ProcessShow
    \/ Normalize
    \/ ApplyMedianFilter
    \/ ApplyFilter
    \/ ApplyKalmanFilter
    \/ AutomaticSegmentation
    \/ LabelSegmentation

Spec == Init /\ [][Next]_vars

(***************************************************************************)
(* get_kalman_filter_estimate on its own: one action per loop iteration.   *)
(***************************************************************************)
KalmanValues == {F(-1), F(0), F(2)}
KalmanInputs == UNION {[1..n -> KalmanValues] : n \in 0..MaxKalmanLen}
KalmanQ == {Some(F(0)), Some(F(1)), Some(<<1, 2>>)}
KalmanR == {Some(F(1)), Some(<<1, 2>>), Some(F(0))}

KalmanInit ==
    /\ timestamp = Recording(2).timestamp
    /\ x = Recording(2).x
    /\ y = Recording(2).y
    /\ z = Recording(2).z
    /\ view = "None"
    /\ sampling_rate = None
    /\ filter_type = "None"
    /\ median_filter_window_size = None
    /\ process_variance_q \in KalmanQ
    /\ measurement_variance_estimate \in KalmanR
    /\ mean_signal = None
    /\ call = "__init__"
    /\ pc = "idle"
    /\ merge_axis = FALSE
    /\ trace = <<>>
    /\ plots = <<>>
    /\ err = "none"
    /\ ops = 0
    /\ output_file = [handle |-> "none", lines |-> <<>>]
    /\ kalman = None

kalman_frame == <<timestamp, x, y, z, mean_signal, view, sampling_rate, filter_type,
                  median_filter_window_size, process_variance_q,
                  measurement_variance_estimate, call, pc, merge_axis, trace, plots,
                  err, ops, output_file>>

\* Lines 103-112.
KalmanCall ==
    /\ kalman = None
    /\ \E data \in KalmanInputs : kalman' = Some(KalmanStart(data))
    /\ UNCHANGED kalman_frame

\* Lines 114-121, one pass through the loop body.
KalmanStep ==
    /\ kalman # None
    /\ KalmanRunning(Get(kalman))
    /\ kalman' = Some(KalmanIteration(Get(kalman), process_variance_q,
                                      measurement_variance_estimate))
    /\ UNCHANGED kalman_frame

\* Line 123.
KalmanReturn ==
    /\ kalman # None
    /\ ~KalmanRunning(Get(kalman))
    /\ kalman' = None
    /\ UNCHANGED kalman_frame

KalmanNext == KalmanCall \/ KalmanStep \/ KalmanReturn

SpecKalman == KalmanInit /\ [][KalmanNext]_vars

(***************************************************************************)
(* label_segmentation on a recording longer than the export window.        *)
(***************************************************************************)
LabelInit ==
    /\ timestamp = Recording(LongLen).timestamp
    /\ x = Recording(LongLen).x
    /\ y = Recording(LongLen).y
    /\ z = Recording(LongLen).z
    /\ view = "None"
    /\ Constructed

LabelNext == LabelSegmentation

SpecLabel == LabelInit /\ [][LabelNext]_vars

(***************************************************************************)
(* Properties.                                                             *)
(***************************************************************************)
StageOrder == <<"normalize", "merge", "median", "band", "kalman">>
Rank(s) == CHOOSE i \in 1..Len(StageOrder) : StageOrder[i] = s
InTrace(s) == \E i \in DOMAIN trace : trace[i] = s
BandConfigured == sampling_rate # None /\ filter_type # "None"
ActiveSignal == IF mean_signal = None THEN <<x, y, z>> ELSE <<Get(mean_signal)>>
Completed == call = "process" /\ pc = "idle" /\ err = "none"

StageTitle(s) ==
    CASE s = "normalize" -> <<name, "normalize">>
      [] s = "median" -> <<name, "median", "filter">>
      [] s = "band" -> <<name, filter_type, "filter">>
      [] s = "kalman" -> <<name, "kalman", "filter">>
      [] OTHER -> <<>>

\* C2: with a view configured, after every stage of a run of process the
\* view's latest notification carries the signal as it is at that moment,
\* under that stage's label; without a view nothing is notified.
C2_NotifiedAfterEveryStage ==
    /\ view = "None" => plots = <<>>
    /\ (view # "None" /\ call = "process" /\ pc # "idle" /\ trace # <<>>) =>
          /\ plots # <<>>
          /\ plots[Len(plots)].data = ActiveSignal
          /\ trace[Len(trace)] # "merge" =>
                plots[Len(plots)].title = StageTitle(trace[Len(trace)])

FilterStageStep ==
    /\ trace' # <<>>
    /\ trace' # trace \/ ops' # ops
    /\ trace'[Len(trace')] \in {"median", "band", "kalman"}

\* C3: a filtering stage (median, band, Kalman) entered while mean_signal is
\* populated leaves x, y and z unchanged and mean_signal populated; entered
\* while mean_signal is None it leaves mean_signal None.
C3_FiltersTargetMeanSignal ==
    [][FilterStageStep =>
          IF mean_signal # None
          THEN x' = x /\ y' = y /\ z' = z /\ mean_signal' # None
          ELSE mean_signal' = None]_vars

\* automatic_segmentation populated mean_signal and the Kalman stage then
\* changed it.
C3_Witness ==
    /\ call = "apply_kalman_filter"
    /\ err = "none"
    /\ mean_signal # None
    /\ Get(mean_signal) # get_mean_signal(x, y, z)

BothSkipped ==
    call = "process" /\ median_filter_window_size = None /\ ~BandConfigured

C5_BlockHasWindowSizeSamples ==
    (call = "label_segmentation" /\ err = "none") =>
        LET lines == output_file.lines
        IN  /\ lines # <<>>
            /\ lines[1].kind = "label"
            /\ \A i \in DOMAIN lines : lines[i].kind = "label" =>
                  /\ i + window_size + 2 <= Len(lines)
                  /\ lines[i + 1].kind = "header"
                  /\ \A j \in 1..window_size : lines[i + 1 + j].kind = "sample"
                  /\ lines[i + window_size + 2].kind = "blank"

\* C6: x, y, z and timestamp have one length, and so has mean_signal once
\* populated.
C6_EqualLengths ==
    /\ Len(x) = Len(timestamp)
    /\ Len(y) = Len(timestamp)
    /\ Len(z) = Len(timestamp)
    /\ mean_signal # None => Len(Get(mean_signal)) = Len(timestamp)

\* A completed merging run with the median stage, after an earlier call.
C6_Witness ==
    Completed /\ merge_axis /\ InTrace("median") /\ mean_signal # None /\ ops = 2

AllFinite(data) == \A i \in DOMAIN data : IsFinite(data[i])

\* C7: a Kalman stage entered with measurement_variance_estimate <= 0 ends
\* with an exception, and no signal holds a value got by dividing by zero.
C7_NonPositiveVarianceRejected ==
    /\ (/\ trace # <<>>
        /\ trace[Len(trace)] = "kalman"
        /\ measurement_variance_estimate # None
        /\ RLeq(Get(measurement_variance_estimate), Zero))
          => (err # "none" /\ pc = "idle")
    /\ AllFinite(x) /\ AllFinite(y) /\ AllFinite(z)
    /\ mean_signal # None => AllFinite(Get(mean_signal))

\* C8: a band stage of process entered with a normalized cutoff outside
\* (0,1) ends with an exception.
C8_CutoffOutOfRangeRejected ==
    (/\ call = "process"
     /\ InTrace("band")
     /\ LET Wn == normal_cutoff(get_frequency(Get(sampling_rate)))
        IN  RLeq(Wn, Zero) \/ RLeq(One, Wn))
        => (err # "none" /\ trace[Len(trace)] = "band")

\* C9: no call of label_segmentation ends with its file handle open.
C9_HandleClosed == output_file.handle # "open"

\* C10: for Q >= 0 and R > 0, on an input of n >= 1 samples the locals of
\* get_kalman_filter_estimate satisfy estimate[0] = 0, error[0] = 1 and, at
\* every index computed so far, the recurrence of the scalar Kalman filter
\* with a gain in [0,1]; and the estimates computed so far are those of
\* every input that differs only at index 0 or at indices not yet reached.
C10_KalmanRecurrence ==
    kalman # None =>
        LET k == Get(kalman)
            Q == Get(process_variance_q)
            R == Get(measurement_variance_estimate)
            n == Len(k.data)
            est == k.a_posteriori_estimate
            error == k.a_posteriori_error_estimate
        IN  (n >= 1 /\ RLeq(Zero, Q) /\ ~RLeq(R, Zero)) =>
              /\ k.raised = "none"
              /\ Len(est) = n
              /\ est[1] = Zero
              /\ error[1] = One
              /\ \A i \in 2..(k.i - 1) :
                    LET prior == RAdd(error[i - 1], Q)
                        gain == RDiv(prior, RAdd(prior, R))
                    IN  /\ k.blending_factor_gain[i] = gain
                        /\ est[i] = RAdd(est[i - 1], RMul(gain, RSub(k.data[i], est[i - 1])))
                        /\ error[i] = RMul(RSub(One, gain), prior)
                        /\ RLeq(Zero, gain) /\ RLeq(gain, One)
              /\ \A d \in KalmanInputs :
                    (Len(d) = n /\ \A i \in 2..(k.i - 1) : d[i] = k.data[i]) =>
                        LET other == get_kalman_filter_estimate(
                                         d, process_variance_q,
                                         measurement_variance_estimate)
                        IN  \A i \in 1..(k.i - 1) : other.a_posteriori_estimate[i] = est[i]

\* A finished call on the longest input, with a positive process variance.
C10_Witness ==
    /\ kalman # None
    /\ ~KalmanRunning(Get(kalman))
    /\ Len(Get(kalman).data) = MaxKalmanLen
    /\ process_variance_q = Some(<<1, 2>>)
    /\ measurement_variance_estimate = Some(F(1))
    /\ Get(kalman).a_posteriori_estimate[MaxKalmanLen] \notin {Zero, Get(kalman).data[MaxKalmanLen]}

====
